---- MODULE Spec2Model ----
(***************************************************************************)
(* Model of script.js: a baseball thrown under gravity and quadratic drag, *)
(* integrated on a 16 ms interval timer, with a camera fly-to transition   *)
(* run on its own interval timer after each landing, and a draggable       *)
(* handle that sets the throw direction.                                   *)
(*                                                                         *)
(* JavaScript numbers are modelled as fixed-point integers with three      *)
(* decimal digits (Unit = 1.0); every product and quotient is rounded to   *)
(* the nearest representable value, as IEEE arithmetic rounds to the       *)
(* nearest double.  The browser's interval table is modelled explicitly:   *)
(* setInterval allocates a fresh id, clearInterval removes an id, and any  *)
(* live timer may fire next (the callbacks themselves run to completion).  *)
(* The values of orbitControls.target and of the camera are not modelled,  *)
(* only which callback wrote the target last.                              *)
(***************************************************************************)
EXTENDS Integers, Sequences, FiniteSets, TLC

VARIABLES
  position,            \* baseball.position
  velocity,            \* velocity
  direction,           \* direction (throw direction)
  handle,              \* directionController.position
  dragging,            \* DragControls: a drag gesture is in progress
  enabled,             \* orbitControls.enabled
  targetWriter,        \* which callback last assigned orbitControls.target
  pathPoints,          \* pathPoints, each point tagged with the flight that recorded it
  pathLine,            \* the points held by pathGeometry
  simulationInterval,  \* simulationInterval (0 = undefined)
  intervals,           \* the browser's live interval timers: id -> callback
  closures,            \* per animateEnd call: the frames counter of its closure
  nextId,              \* next id setInterval will return
  options,             \* the lil-gui options object
  run,                 \* number of start() calls so far
  ticks                \* number of step() calls since the last start()

vars == <<position, velocity, direction, handle, dragging, enabled,
          targetWriter, pathPoints, pathLine, simulationInterval, intervals,
          closures, nextId, options, run, ticks>>

----------------------------------------------------------------------------
(* Bounds *)

MaxRuns == 2

\* positions the user can drag the handle to (x, y, z in Unit/1000)
HandlePositions == { <<1000, 50, 0>>, <<0, 0, 0>> }

----------------------------------------------------------------------------
(* Fixed-point arithmetic *)

Unit == 1000

Abs(a) == IF a < 0 THEN -a ELSE a

\* Operands are bound to their values once (y \in {e}), so that an operator
\* applied to a compound expression does not evaluate it again at every use.
RoundDiv(n, d) ==
  CHOOSE r \in { IF m >= 0 THEN (2 * m + d) \div (2 * d) ELSE -((2 * (-m) + d) \div (2 * d))
                   : m \in {n} } : TRUE

FMul(a, b) == RoundDiv(a * b, Unit)

RECURSIVE SqrtIter(_, _)
SqrtIter(n, x) ==
  CHOOSE r \in { IF y >= x THEN x ELSE SqrtIter(n, y) : y \in {(x + n \div x) \div 2} } : TRUE

ISqrt(n) == CHOOSE r \in { IF m = 0 THEN 0 ELSE SqrtIter(m, m) : m \in {n} } : TRUE

----------------------------------------------------------------------------
(* THREE.Vector3 *)

Zero3 == <<0, 0, 0>>

LengthSqRaw(v) ==
  CHOOSE r \in { w[1] * w[1] + w[2] * w[2] + w[3] * w[3] : w \in {v} } : TRUE

Length(v) == ISqrt(LengthSqRaw(v))

LengthSq(v) == RoundDiv(LengthSqRaw(v), Unit)

\* divideScalar(length() || 1)
Normalize(v) ==
  CHOOSE r \in { IF l = 0 THEN w
                 ELSE <<RoundDiv(w[1] * Unit, l), RoundDiv(w[2] * Unit, l),
                        RoundDiv(w[3] * Unit, l)>>
                   : <<w, l>> \in {<<v, Length(v)>>} } : TRUE

Negate(v) == CHOOSE r \in { <<-w[1], -w[2], -w[3]>> : w \in {v} } : TRUE

MultiplyScalar(v, s) ==
  CHOOSE r \in { <<FMul(w[1], t), FMul(w[2], t), FMul(w[3], t)>> : w \in {v}, t \in {s} } : TRUE

AddScaledVector(v, a, s) ==
  CHOOSE r \in { <<w[1] + FMul(b[1], t), w[2] + FMul(b[2], t), w[3] + FMul(b[3], t)>>
                   : w \in {v}, b \in {a}, t \in {s} } : TRUE

----------------------------------------------------------------------------
(* Program constants *)

dt == 16

\* dt / 1000 taken as an integer quotient
dtsTruncated == dt \div 1000

dts == RoundDiv(dt * Unit, 1000)

a_grav == <<0, -9800, 0>>

length == 40

\* options as constructed: mass 1.45e-3 and area pi*(73e-3/2)^2 at the
\* resolution of Unit
DefaultOptions ==
  [speed |-> 10000, rho |-> 1200, C_d |-> 330, mass |-> 1, area |-> 4]

----------------------------------------------------------------------------
(* The interval table *)

SetInterval(tbl, id, cb) == tbl @@ (id :> cb)

ClearInterval(tbl, id) == [i \in DOMAIN tbl \ {id} |-> tbl[i]]

Live(id) == id \in DOMAIN intervals

LiveSteps == {i \in DOMAIN intervals : intervals[i] = "step"}

LiveAnims == {i \in DOMAIN intervals : intervals[i] = "anim"}

----------------------------------------------------------------------------
Init ==
  /\ position = Zero3
  /\ velocity = Zero3
  /\ handle = Zero3
  /\ direction = Normalize(Zero3)    \* render() has run once at load
  /\ dragging = FALSE
  /\ enabled = TRUE
  /\ targetWriter = "none"
  /\ pathPoints = <<>>
  /\ pathLine = <<>>
  /\ simulationInterval = 0
  /\ intervals = <<>>
  /\ closures = <<>>
  /\ nextId = 1
  /\ options = DefaultOptions
  /\ run = 0
  /\ ticks = 0

----------------------------------------------------------------------------
(* start(): reset and begin simulation *)

\* start() without its clearInterval
StartClearedNone == intervals

\* start() cancelling every interval timer, not only the simulation's
StartClearedAll == <<>>

\* clearInterval(simulationInterval)
StartCleared == ClearInterval(intervals, simulationInterval)

\* start() without pathGeometry.setFromPoints([])
StartPathLineKept == pathLine

\* pathGeometry.setFromPoints([])
StartPathLine == <<>>

\* start() without pathPoints = []
StartPathPointsKept == pathPoints

\* pathPoints = []
StartPathPoints == <<>>

\* velocity.copy(direction); velocity.multiplyScalar(options.speed)
StartVelocity == MultiplyScalar(direction, options.speed)

Start ==
  /\ run < MaxRuns
  /\ pathLine' = StartPathLine
  /\ pathPoints' = StartPathPoints
  /\ position' = Zero3
  /\ velocity' = StartVelocity
  /\ simulationInterval' = nextId
  /\ intervals' = SetInterval(StartCleared, nextId, "step")
  /\ nextId' = nextId + 1
  /\ run' = run + 1
  /\ ticks' = 0
  /\ UNCHANGED <<direction, handle, dragging, enabled, targetWriter, closures, options>>

----------------------------------------------------------------------------
(* step(): one tick of the physics model, with animateEnd() when it lands *)

\* options.rho * velocity.lengthSq() * options.C_d * options.area / 2
DragScalar(v) ==
  RoundDiv(FMul(FMul(FMul(options.rho, LengthSq(v)), options.C_d), options.area), 2)

\* velocity.clone().normalize().negate().multiplyScalar(...)
f_drag(v) == MultiplyScalar(Negate(Normalize(v)), DragScalar(v))

\* the drag force divided by the mass
a_dragDivided(v) ==
  CHOOSE r \in { <<RoundDiv(f[1] * Unit, options.mass), RoundDiv(f[2] * Unit, options.mass),
                   RoundDiv(f[3] * Unit, options.mass)>> : f \in {f_drag(v)} } : TRUE

\* f_drag.multiplyScalar(options.mass)
a_drag(v) == MultiplyScalar(f_drag(v), options.mass)

StepVelocity(v) == AddScaledVector(AddScaledVector(v, a_grav, dts), a_drag(v), dts)

StepPosition(p, v) == AddScaledVector(p, StepVelocity(v), dts)

\* the landing test reading the x component
LandedX(p) == p[1] <= 0

\* step() recording the position after it has moved the ball
StepPathPointsAfterMove ==
  Append(pathPoints, [p |-> StepPosition(position, velocity), run |-> run])

\* step() recording only positions above the ground
StepPathPointsAirborne ==
  IF position[2] > 0 THEN Append(pathPoints, [p |-> position, run |-> run]) ELSE pathPoints

\* pathPoints.push(baseball.position.clone())
StepPathPoints == Append(pathPoints, [p |-> position, run |-> run])

\* baseball.position.y <= 0
Landed(p) == p[2] <= 0

\* animateEnd() without its clearInterval
AnimateEndNotCleared == intervals

\* animateEnd: clearInterval(simulationInterval)
AnimateEndCleared == ClearInterval(intervals, simulationInterval)

\* animateEnd: let frames = 0
NewClosure == [frames |-> 0]

Step(id) ==
  LET p == StepPosition(position, velocity)
  IN  /\ id \in LiveSteps
      /\ position' = p
      /\ velocity' = StepVelocity(velocity)
      /\ pathPoints' = StepPathPoints
      /\ targetWriter' = "step"
      /\ ticks' = ticks + 1
      /\ IF Landed(p)
           THEN /\ pathLine' = StepPathPoints
                /\ enabled' = FALSE
                /\ intervals' = SetInterval(AnimateEndCleared, nextId, "anim")
                /\ closures' = closures @@ (nextId :> NewClosure)
                /\ nextId' = nextId + 1
           ELSE UNCHANGED <<pathLine, enabled, intervals, closures, nextId>>
      /\ UNCHANGED <<direction, handle, dragging, simulationInterval, options, run>>

----------------------------------------------------------------------------
(* the interval callback created by animateEnd() *)

\* the frame test off by one
AnimFinishedEarly(f) == f >= length - 1

\* ++frames === length
AnimFinished(f) == f = length

AnimStep(id) ==
  /\ id \in LiveAnims
  /\ targetWriter' = "anim"
  /\ closures' = [closures EXCEPT ![id].frames = @ + 1]
  /\ IF AnimFinished(closures[id].frames + 1)
       THEN /\ intervals' = ClearInterval(intervals, id)
            /\ enabled' = TRUE
       ELSE UNCHANGED <<intervals, enabled>>
  /\ UNCHANGED <<position, velocity, direction, handle, dragging, pathPoints,
                 pathLine, simulationInterval, nextId, options, run, ticks>>

----------------------------------------------------------------------------
(* DragControls events on the direction handle, and the render loop *)

DragStart ==
  /\ ~dragging
  /\ dragging' = TRUE
  /\ enabled' = FALSE
  /\ UNCHANGED <<position, velocity, direction, handle, targetWriter, pathPoints,
                 pathLine, simulationInterval, intervals, closures, nextId,
                 options, run, ticks>>

DragMove(p) ==
  /\ dragging
  /\ handle' = p
  /\ UNCHANGED <<position, velocity, direction, dragging, enabled, targetWriter,
                 pathPoints, pathLine, simulationInterval, intervals, closures,
                 nextId, options, run, ticks>>

DragEnd ==
  /\ dragging
  /\ dragging' = FALSE
  /\ enabled' = TRUE
  /\ UNCHANGED <<position, velocity, direction, handle, targetWriter, pathPoints,
                 pathLine, simulationInterval, intervals, closures, nextId,
                 options, run, ticks>>

\* render() also re-aiming the ball in flight
RenderRethrow ==
  /\ direction' = Normalize(handle)
  /\ velocity' = MultiplyScalar(Normalize(handle), options.speed)
  /\ UNCHANGED <<position, handle, dragging, enabled, targetWriter, pathPoints,
                 pathLine, simulationInterval, intervals, closures, nextId,
                 options, run, ticks>>

\* direction.copy(directionController.position); direction.normalize()
Render ==
  /\ direction' = Normalize(handle)
  /\ UNCHANGED <<position, velocity, handle, dragging, enabled, targetWriter,
                 pathPoints, pathLine, simulationInterval, intervals, closures,
                 nextId, options, run, ticks>>

----------------------------------------------------------------------------
Tick == \E id \in DOMAIN intervals : Step(id)

AnimTick == \E id \in DOMAIN intervals : AnimStep(id)

Drag == \E p \in HandlePositions : DragMove(p)

Next ==
  \/ Start
  \/ Tick
  \/ AnimTick
  \/ DragStart
  \/ Drag
  \/ DragEnd
  \/ Render

Spec == Init /\ [][Next]_vars

----------------------------------------------------------------------------
(* A single throw: the options as edited in the panel and the handle as    *)
(* dragged and rendered before the throw, then one start() and no other.   *)

FlightOptions ==
  { DefaultOptions,
    [DefaultOptions EXCEPT !.speed = 2000],
    [DefaultOptions EXCEPT !.mass = 2000, !.area = 500],
    [DefaultOptions EXCEPT !.speed = 157, !.area = 0] }

FlightHandles ==
  { <<0, 1000, 0>>, <<1000, 1000, 0>>, <<1000, 50, 0>>, <<200, 300, 600>>,
    <<300, -400, 0>> }

InitFlight ==
  /\ position = Zero3
  /\ velocity = Zero3
  /\ handle \in FlightHandles
  /\ direction = Normalize(handle)
  /\ dragging = FALSE
  /\ enabled = TRUE
  /\ targetWriter = "none"
  /\ pathPoints = <<>>
  /\ pathLine = <<>>
  /\ simulationInterval = 0
  /\ intervals = <<>>
  /\ closures = <<>>
  /\ nextId = 1
  /\ options \in FlightOptions
  /\ run = 0
  /\ ticks = 0

FirstStart == run = 0 /\ Start

NextFlight ==
  \/ FirstStart
  \/ Tick
  \/ AnimTick

\* a live interval timer keeps firing
FlightSpec == InitFlight /\ [][NextFlight]_vars /\ WF_vars(Tick) /\ WF_vars(AnimTick)

----------------------------------------------------------------------------
(* Phases of the simulation stepper *)

Ticking == Live(simulationInterval)

Phase == IF Ticking THEN "RUNNING" ELSE IF run = 0 THEN "IDLE" ELSE "LANDED"

\* the ball is on or below the ground after a tick of the current flight
HasLanded == ticks > 0 /\ position[2] <= 0

----------------------------------------------------------------------------
(* Properties *)

\* C1: at most one simulation interval timer is live, and it is the one
\* simulationInterval names: no timer of an earlier flight survives a start().
C1_OneSimulationTimer ==
  /\ Cardinality(LiveSteps) <= 1
  /\ LiveSteps \subseteq {simulationInterval}

\* second start() issued while the first flight was still ticking
C1_Witness ==
  /\ run = 2
  /\ DOMAIN closures = {}
  /\ LiveSteps = {simulationInterval}
  /\ ticks >= 1

\* C2: the stepper goes from RUNNING to LANDED exactly on a tick that leaves
\* the ball at y <= 0; it is never LANDED before a tick of the flight has run,
\* and right after start() (y = 0, no tick yet) it is RUNNING.
C2_LandsIffGround ==
  /\ [](run > 0 /\ ticks = 0 => Phase = "RUNNING")
  /\ [][ /\ (Phase = "RUNNING" /\ Phase' = "LANDED")
              <=> (Phase = "RUNNING" /\ ticks' = ticks + 1 /\ position'[2] <= 0)
         /\ (Phase' = "LANDED" => ticks' >= 1) ]_vars

\* a flight that rose and came down
C2_Witness ==
  /\ Phase = "LANDED"
  /\ ticks >= 3
  /\ position[2] <= 0
  /\ pathPoints[2].p[2] > 0

C4_SecondRunOnly ==
  (Phase = "LANDED" /\ run >= 2)
    => /\ Len(pathLine) = ticks
       /\ \A i \in 1..Len(pathLine) : pathLine[i].run = run

\* both flights ticked several times and landed
C4_Witness ==
  /\ Phase = "LANDED"
  /\ run = 2
  /\ Cardinality(DOMAIN closures) = 2
  /\ Len(pathLine) >= 3

\* C5: every camera transition keeps its timer until its own frame count
\* reaches 40 and no longer, and the step that reaches 40 re-enables orbit
\* control.
C5_FortySteps ==
  /\ [](\A id \in DOMAIN closures :
          /\ closures[id].frames <= length
          /\ Live(id) <=> closures[id].frames < length)
  /\ [][ \A id \in DOMAIN closures :
           (closures'[id].frames = length /\ closures[id].frames < length)
             => (closures[id].frames = length - 1 /\ enabled' /\ ~Live(id)') ]_vars

\* a transition that finished although another start() came in between
C5_Witness ==
  /\ run = 2
  /\ \E id \in DOMAIN closures : closures[id].frames = length /\ ~Live(id)
  /\ \E id \in DOMAIN closures : closures[id].frames = 1
  /\ enabled

\* C6: right after start() the velocity has magnitude options.speed.
Tolerance == Unit \div 50

C6_SpeedAfterStart ==
  (run > 0 /\ ticks = 0) => Abs(Length(velocity) - options.speed) <= Tolerance

\* C7: orbit control is disabled for as long as a drag gesture lasts.
C7_DragSuspendsOrbit == dragging => ~enabled

\* C8: the reference throw (straight up at speed 10, options as constructed)
\* is above the ground after its first tick, and every flight that is not
\* restarted stops ticking.
C8_Lands ==
  /\ []((options = DefaultOptions /\ direction = <<0, Unit, 0>> /\ run = 1 /\ ticks = 1)
          => position[2] > 0)
  /\ (Ticking ~> (~Ticking /\ HasLanded))

\* the reference throw has come down
C8_Witness ==
  /\ options = DefaultOptions
  /\ direction = <<0, Unit, 0>>
  /\ ~Ticking
  /\ HasLanded
  /\ ticks > 100

\* C9: from a landing until the next start() no tick runs: the ball, its
\* velocity and the recorded path stay as they are and no simulation timer
\* is live.
C9_LandedIsFrozen ==
  /\ [](HasLanded => LiveSteps = {})
  /\ [][ (HasLanded /\ run' = run)
           => /\ position' = position
              /\ velocity' = velocity
              /\ pathPoints' = pathPoints
              /\ ticks' = ticks ]_vars

\* landed, and the camera transition has been stepping since
C9_Witness ==
  /\ HasLanded
  /\ ticks >= 3
  /\ \E id \in DOMAIN closures : Live(id) /\ closures[id].frames >= 2

\* C10: start() leaves every camera transition as it is, so a simulation
\* timer and a transition timer can be live together, and then a tick and a
\* transition step each assign the orbit target.
C10_StartKeepsTransition ==
  [][ /\ (run' = run + 1) => (LiveAnims' = LiveAnims /\ closures' = closures)
      /\ (LiveAnims # {} /\ ticks' = ticks + 1) => targetWriter' = "step"
      /\ (LiveSteps # {} /\ closures' # closures /\ DOMAIN closures' = DOMAIN closures)
           => targetWriter' = "anim" ]_vars

\* a flight ticking while an earlier landing's transition is mid-way
C10_Witness ==
  /\ LiveSteps # {}
  /\ ticks >= 1
  /\ targetWriter = "anim"
  /\ \E id \in LiveAnims : closures[id].frames >= 1

\* C11: orbit control is disabled in every state in which a camera
\* transition still has steps to run.
C11_TransitionSuspendsOrbit == LiveAnims # {} => ~enabled

\* C12: at most one camera-transition timer is live.
C12_OneTransitionTimer == Cardinality(LiveAnims) <= 1

\* C13: once a throw has been started, moving the handle (and the render
\* loop taking up the new direction) leaves the ball's position and velocity,
\* the recorded path, the line and every timer as they are; the direction is
\* read only by start().
C13_HandleOnlySetsDirection ==
  [][ /\ (run > 0 /\ (handle' # handle \/ direction' # direction))
          => /\ position' = position
             /\ velocity' = velocity
             /\ pathPoints' = pathPoints
             /\ pathLine' = pathLine
             /\ intervals' = intervals
             /\ closures' = closures
             /\ run' = run
             /\ ticks' = ticks
      /\ (run' = run + 1) => velocity' = MultiplyScalar(direction, options.speed) ]_vars

\* a ball thrown along the handle keeps flying after the handle went back to
\* the origin and the new direction was rendered
C13_Witness ==
  /\ Ticking
  /\ ticks >= 2
  /\ velocity[1] > 0
  /\ handle = Zero3
  /\ direction = Zero3

\* C16: the trajectory line is empty whenever a flight is ticking: start()
\* empties it, ticks append to pathPoints only, and it is replaced by the
\* recorded path only on the landing tick.
C16_LineEmptyInFlight ==
  /\ [](Ticking => pathLine = <<>>)
  /\ [][ (Ticking /\ Ticking' /\ ticks' = ticks + 1)
           => (pathLine' = pathLine /\ Len(pathPoints') = Len(pathPoints) + 1) ]_vars
  /\ [][ (Ticking /\ ~Ticking') => pathLine' = pathPoints' ]_vars

\* a second flight in the air, the first one's line gone
C16_Witness ==
  /\ run = 2
  /\ Ticking
  /\ ticks >= 2
  /\ \E id \in DOMAIN closures : closures[id].frames >= 1
  /\ pathLine = <<>>

RefMagnitude(v) ==
  FMul(FMul(FMul(FMul(Unit \div 2, options.rho), LengthSq(v)), options.C_d), options.area)

RefDragTerm(v) ==
  [i \in 1..3 |-> -FMul(FMul(Normalize(v)[i], RefMagnitude(v)), options.mass)]

RefGravity == <<0, -9800, 0>>

RefVelocity(v) == [i \in 1..3 |-> v[i] + RoundDiv((RefGravity[i] + RefDragTerm(v)[i]) * 16, 1000)]

C15_ReferenceStep ==
  [][ (ticks' = ticks + 1)
        => \A i \in 1..3 :
             /\ Abs(velocity'[i] - RefVelocity(velocity)[i]) <= 1
             /\ position'[i] = position[i] + RoundDiv(velocity'[i] * 16, 1000) ]_vars

\* a flight moving sideways and vertically on which the drag term is felt
C15_Witness ==
  /\ options.mass = 2000
  /\ ticks >= 2
  /\ velocity[1] > 0
  /\ velocity[2] # 0
  /\ RefDragTerm(velocity)[1] < -1000

====
